---- MODULE Spec2Model ----
(***************************************************************************)
(* serde-regex: the Serde<T> wrapper and its Deserialize / Serialize       *)
(* implementations (src/src/lib.rs), modelled over the serde data model.   *)
(*                                                                         *)
(* A decoder is a format name plus the input value it is positioned at; an *)
(* encoder is the list of calls made on the Serializer, as the format      *)
(* renders them.  Two formats are modelled: "json" (an option that is      *)
(* present is written as the bare value, null is the absence marker) and   *)
(* "ron" (a present option is framed as Some(..), None is the marker).     *)
(***************************************************************************)
EXTENDS Integers, Sequences, FiniteSets, TLC

\* ------------------------------------------------------------------ bounds
MaxSeqLen == 2
MaxEntries == 2

\* ------------------------------------------------------ the regex engine
\* Source texts offered to the engine.  "[a-z" is rejected in both modes,
\* "(?-u)\\xFF" compiles only as a bytes::Regex.
Texts == {"a.*b", "c?d", "[a-z", "(?-u)\\xFF"}
Modes == {"text", "bytes"}

Compilable(mode, s) ==
    \/ s \in {"a.*b", "c?d"}
    \/ mode = "bytes" /\ s = "(?-u)\\xFF"

\* The engine's diagnostic for a text it rejects.
Diagnostic(mode, s) ==
    IF s = "[a-z" THEN "unclosed character class"
    ELSE IF s = "(?-u)\\xFF" /\ mode = "text" THEN "pattern can match invalid UTF-8"
    ELSE "unknown"

\* ------------------------------------------------------------ Rust values
RVal(t, s, items, ents) == [t |-> t, s |-> s, items |-> items, ents |-> ents]
NoValue == RVal("-", "", <<>>, {})
String(s) == RVal("String", s, <<>>, {})
RegexName(mode) == IF mode = "text" THEN "Regex" ELSE "bytes::Regex"
RegexSetName(mode) == IF mode = "text" THEN "RegexSet" ELSE "bytes::RegexSet"
Regex(mode, s) == RVal(RegexName(mode), s, <<>>, {})
RegexSet(mode, pats) == RVal(RegexSetName(mode), "", pats, {})
Vec(items) == RVal("Vec", "", items, {})
MapEntry(k, v) == RVal("entry", k, <<v>>, {})
HashMap(ents) == RVal("HashMap", "", <<>>, ents)
None == RVal("None", "", <<>>, {})
Some(v) == RVal("Some", "", <<v>>, {})

as_str(regex) == regex.s
patterns(set) == set.items

\* ----------------------------------------------------------------- errors
Error(kind, text) == [kind |-> kind, text |-> text]
NoError == Error("", "")
invalid_type(d) == Error("invalid_type", d.t)
custom(msg) == Error("custom", msg)

\* ------------------------------------------------- results of a decode call
\* log: the calls made to the engine, in order; reads: how many elements or
\* entries were pulled from a SeqAccess / MapAccess.
EngineCall(fn, mode, pats) == [fn |-> fn, mode |-> mode, pats |-> pats]
\* cap: the capacity the destination collection was created with.
Ok(v, log, reads) ==
    [ok |-> TRUE, val |-> v, err |-> NoError, log |-> log, reads |-> reads, cap |-> 0]
Err(e, log, reads) ==
    [ok |-> FALSE, val |-> NoValue, err |-> e, log |-> log, reads |-> reads, cap |-> 0]

\* ------------------------------------------------------------ input values
Node(t, s, items) == [t |-> t, s |-> s, items |-> items]
WNull == Node("null", "", <<>>)
WStr(s) == Node("str", s, <<>>)
WNum == Node("num", "", <<>>)
WSome(v) == Node("some", "", <<v>>)
WSeq(xs) == Node("seq", "", xs)
WEntry(k, v) == Node("entry", "", <<k, v>>)
WMap(es) == Node("map", "", es)

Formats == {"json", "ron"}

\* ------------------------------------------- the engine's two constructors
FromStr(mode, s) ==
    IF Compilable(mode, s) THEN Ok(Regex(mode, s), <<EngineCall("from_str", mode, <<s>>)>>, 0)
    ELSE Err(Error("regex::Error", Diagnostic(mode, s)),
             <<EngineCall("from_str", mode, <<s>>)>>, 0)

FirstBad(mode, pats) ==
    CHOOSE i \in 1..Len(pats) :
        /\ ~Compilable(mode, pats[i])
        /\ \A j \in 1..(i - 1) : Compilable(mode, pats[j])

RegexSet_new(mode, pats) ==
    IF \A i \in 1..Len(pats) : Compilable(mode, pats[i])
    THEN Ok(RegexSet(mode, [i \in 1..Len(pats) |-> String(pats[i])]),
            <<EngineCall("RegexSet::new", mode, pats)>>, 0)
    ELSE Err(Error("regex::Error", Diagnostic(mode, pats[FirstBad(mode, pats)])),
             <<EngineCall("RegexSet::new", mode, pats)>>, 0)

\* ------------------------------------------- the framework's own decoders
Cow_str_deserialize(d) ==
    IF d.t = "str" THEN Ok(String(d.s), <<>>, 0) ELSE Err(invalid_type(d), <<>>, 0)

RECURSIVE StrLoop(_, _, _)
StrLoop(elems, i, acc) ==
    IF i > Len(elems) THEN Ok(Vec(acc), <<>>, i - 1)
    ELSE LET r == Cow_str_deserialize(elems[i]) IN
         IF r.ok THEN StrLoop(elems, i + 1, Append(acc, r.val))
         ELSE Err(r.err, <<>>, i)

Vec_Cow_str_deserialize(d) ==
    IF d.t = "seq" THEN StrLoop(d.items, 1, <<>>) ELSE Err(invalid_type(d), <<>>, 0)

\* --------------------------------------- Deserialize for single patterns
\* Variant: the byte-mode impl compiles with the text-mode engine.
DeserializeRegex_TextOnly(mode, d) ==
    LET s == Cow_str_deserialize(d) IN
    IF ~s.ok THEN s
    ELSE LET p == FromStr("text", s.val.s) IN
         IF p.ok THEN Ok(Regex(mode, s.val.s), p.log, 0)
         ELSE Err(custom(p.err.text), p.log, 0)

DeserializeRegex(mode, d) ==
    LET s == Cow_str_deserialize(d) IN
    IF ~s.ok THEN s
    ELSE LET p == FromStr(mode, s.val.s) IN
         IF p.ok THEN p ELSE Err(custom(p.err.text), p.log, 0)

\* Variant: members the engine rejects are dropped and the rest is kept.
DeserializeRegexSet_SkipInvalid(mode, d) ==
    LET regexes == Vec_Cow_str_deserialize(d) IN
    IF ~regexes.ok THEN regexes
    ELSE LET all == [i \in 1..Len(regexes.val.items) |-> regexes.val.items[i].s]
             pats == SelectSeq(all, LAMBDA s : Compilable(mode, s))
             r == RegexSet_new(mode, pats) IN
         Ok(r.val, r.log, regexes.reads)

\* Variant: a member text equal to the one before it is not added again.
DeserializeRegexSet_Dedup(mode, d) ==
    LET regexes == Vec_Cow_str_deserialize(d) IN
    IF ~regexes.ok THEN regexes
    ELSE LET all == [i \in 1..Len(regexes.val.items) |-> regexes.val.items[i].s]
             F[i \in 0..Len(all)] ==
                 IF i = 0 THEN <<>>
                 ELSE IF i > 1 /\ all[i] = all[i - 1] THEN F[i - 1]
                 ELSE Append(F[i - 1], all[i])
             pats == F[Len(all)]
             r == RegexSet_new(mode, pats) IN
         IF r.ok THEN Ok(r.val, r.log, regexes.reads)
         ELSE Err(custom(r.err.text), r.log, regexes.reads)

DeserializeRegexSet(mode, d) ==
    LET regexes == Vec_Cow_str_deserialize(d) IN
    IF ~regexes.ok THEN regexes
    ELSE LET pats == [i \in 1..Len(regexes.val.items) |-> regexes.val.items[i].s]
             r == RegexSet_new(mode, pats) IN
         IF r.ok THEN Ok(r.val, r.log, regexes.reads)
         ELSE Err(custom(r.err.text), r.log, regexes.reads)

\* --------------------------------------------------- sequence visitors
\* size_hint() is None ("none") or Some(number of remaining elements).
with_capacity(hint, n) == IF hint = "exact" THEN n ELSE 0

\* Variant: `if let` in place of `while let`, one element is read.
VecLoop_IfLet(mode, elems, i, vec, log) ==
    IF i > Len(elems) THEN Ok(Vec(vec), log, i - 1)
    ELSE LET r == DeserializeRegex(mode, elems[i]) IN
         IF r.ok THEN Ok(Vec(Append(vec, r.val)), log \o r.log, i)
         ELSE Err(r.err, log \o r.log, i)

\* Variant: an element that fails to decode is skipped.
RECURSIVE VecLoop_SkipFailed(_, _, _, _, _)
VecLoop_SkipFailed(mode, elems, i, vec, log) ==
    IF i > Len(elems) THEN Ok(Vec(vec), log, i - 1)
    ELSE LET r == DeserializeRegex(mode, elems[i]) IN
         IF r.ok THEN VecLoop_SkipFailed(mode, elems, i + 1, Append(vec, r.val), log \o r.log)
         ELSE VecLoop_SkipFailed(mode, elems, i + 1, vec, log \o r.log)

RECURSIVE VecLoop(_, _, _, _, _)
VecLoop(mode, elems, i, vec, log) ==
    IF i > Len(elems) THEN Ok(Vec(vec), log, i - 1)
    ELSE LET r == DeserializeRegex(mode, elems[i]) IN
         IF r.ok THEN VecLoop(mode, elems, i + 1, Append(vec, r.val), log \o r.log)
         ELSE Err(r.err, log \o r.log, i)

visit_seq(mode, seq, hint) ==
    LET cap == with_capacity(hint, Len(seq.items))
        r == VecLoop(mode, seq.items, 1, <<>>, <<>>) IN
    [r EXCEPT !.cap = cap]

DeserializeVec(mode, d, hint) ==
    IF d.t = "seq" THEN visit_seq(mode, d, hint) ELSE Err(invalid_type(d), <<>>, 0)

\* ---------------------------------------------------- mapping visitors
\* The key type K of the model is String.
\* Variant: entry(k).or_insert(v), the first value of a key is kept.
insert_KeepFirst(ents, k, v) ==
    IF \E e \in ents : e.s = k THEN ents ELSE ents \cup {MapEntry(k, v)}

insert(ents, k, v) == {e \in ents : e.s # k} \cup {MapEntry(k, v)}

RECURSIVE MapLoop(_, _, _, _, _)
MapLoop(mode, entries, i, hashmap, log) ==
    IF i > Len(entries) THEN Ok(HashMap(hashmap), log, i - 1)
    ELSE LET key == Cow_str_deserialize(entries[i].items[1]) IN
         IF ~key.ok THEN Err(key.err, log, i)
         ELSE LET value == DeserializeRegex(mode, entries[i].items[2]) IN
              IF value.ok
              THEN MapLoop(mode, entries, i + 1,
                           insert(hashmap, key.val.s, value.val), log \o value.log)
              ELSE Err(value.err, log \o value.log, i)

visit_map(mode, map, hint) ==
    LET cap == with_capacity(hint, Len(map.items))
        r == MapLoop(mode, map.items, 1, {}, <<>>) IN
    [r EXCEPT !.cap = cap]

DeserializeHashMap(mode, d, hint) ==
    IF d.t = "map" THEN visit_map(mode, d, hint) ELSE Err(invalid_type(d), <<>>, 0)

\* ------------------------------------------------------------------ types
Ty(opt, shape, mode) == [opt |-> opt, shape |-> shape, mode |-> mode]
Shapes == {"Regex", "RegexSet", "Vec", "HashMap"}
AllTypes == [opt : BOOLEAN, shape : Shapes, mode : Modes]
Inner(ty) == Ty(FALSE, ty.shape, ty.mode)

\* The types T for which `impl Deserialize for Serde<T>` is written.
DeserializeImpls ==
    { Ty(TRUE, "Regex", "text"), Ty(FALSE, "Regex", "text"),
      Ty(TRUE, "RegexSet", "text"), Ty(FALSE, "RegexSet", "text"),
      Ty(FALSE, "Vec", "text"), Ty(FALSE, "HashMap", "text"),
      Ty(TRUE, "Vec", "bytes"), Ty(TRUE, "HashMap", "bytes"),
      Ty(TRUE, "Vec", "text"), Ty(TRUE, "HashMap", "text"),
      Ty(TRUE, "Regex", "bytes"), Ty(FALSE, "Regex", "bytes"),
      Ty(FALSE, "RegexSet", "bytes"),
      Ty(FALSE, "Vec", "bytes"), Ty(FALSE, "HashMap", "bytes") }

DeserializePlain(ty, d, hint) ==
    CASE ty.shape = "Regex" -> DeserializeRegex(ty.mode, d)
      [] ty.shape = "RegexSet" -> DeserializeRegexSet(ty.mode, d)
      [] ty.shape = "Vec" -> DeserializeVec(ty.mode, d, hint)
      [] ty.shape = "HashMap" -> DeserializeHashMap(ty.mode, d, hint)

\* Option::<Serde<X>>::deserialize: the format decides what counts as absent
\* and how a present value is framed.
\* Result::map(Some)
map_Some(r) == IF r.ok THEN [r EXCEPT !.val = Some(r.val)] ELSE r

visit_some(ty, d, hint) == map_Some(DeserializePlain(ty, d, hint))

Option_deserialize(fmt, ty, d, hint) ==
    IF d.t = "null" THEN Ok(None, <<>>, 0)
    ELSE IF fmt = "json" THEN visit_some(ty, d, hint)
    ELSE IF d.t = "some" THEN visit_some(ty, d.items[1], hint)
    ELSE Err(Error("expected_option", d.t), <<>>, 0)

\* match ...? { Some(Serde(x)) => Ok(Serde(Some(x))), None => Ok(Serde(None)) }
match_Option(r) ==
    IF ~r.ok THEN r
    ELSE IF r.val.t = "Some" THEN [r EXCEPT !.val = Some(r.val.items[1])]
    ELSE [r EXCEPT !.val = None]

\* Variant: both arms of the match return Serde(None).
DeserializeOption_DropsSome(fmt, ty, d, hint) ==
    LET r == Option_deserialize(fmt, Inner(ty), d, hint) IN
    IF ~r.ok THEN r ELSE [r EXCEPT !.val = None]

DeserializeOption(fmt, ty, d, hint) ==
    match_Option(Option_deserialize(fmt, Inner(ty), d, hint))

Serde_deserialize(fmt, ty, d, hint) ==
    IF ty.opt THEN DeserializeOption(fmt, ty, d, hint) ELSE DeserializePlain(ty, d, hint)

\* ------------------------------------------------- the free decode function
\* Every impl returns Ok(Serde(value)); Serde_deserialize above carries the
\* value the wrapper holds, this puts the wrapper around it.
Serde(v) == RVal("Serde", "", <<v>>, {})
Wrapper(r) == IF r.ok THEN [r EXCEPT !.val = Serde(r.val)] ELSE r

\* |x| x.0 under Result::map
Unwrap(r) == IF r.ok THEN [r EXCEPT !.val = r.val.items[1]] ELSE r

\* Variant: the wrapper is returned as it is.
deserialize_KeepsWrapper(f, t, d, h) == Wrapper(Serde_deserialize(f, t, d, h))

\* Serde::deserialize(deserializer).map(|x| x.0)
deserialize(f, t, d, h) == Unwrap(Wrapper(Serde_deserialize(f, t, d, h)))

\* ------------------------------------------------- calls on the Serializer
Ev(e, s, n) == [e |-> e, s |-> s, n |-> n]
serialize_str(s) == <<Ev("str", s, 0)>>
serialize_none == <<Ev("none", "", 0)>>
serialize_some(fmt, inner) ==
    IF fmt = "json" THEN inner ELSE <<Ev("some", "", 0)>> \o inner
serialize_seq(len) == <<Ev("seq", "", len)>>
serialize_map(len) == <<Ev("map", "", len)>>
end == <<Ev("end", "", 0)>>

RECURSIVE Concat(_)
Concat(ss) == IF ss = <<>> THEN <<>> ELSE Head(ss) \o Concat(Tail(ss))

\* <[String] as Serialize>::serialize
slice_String_serialize(strs) ==
    serialize_seq(Len(strs))
        \o Concat([i \in 1..Len(strs) |-> serialize_str(strs[i].s)]) \o end

\* --------------------------------------------------------- Serialize impls
SerializeRegex(regex) == serialize_str(as_str(regex))

SerializeRegexSet(set) == slice_String_serialize(patterns(set))

SerializeOptionRegexSet(opt) ==
    IF opt.t = "Some" THEN slice_String_serialize(patterns(opt.items[1]))
    ELSE serialize_none

\* Variant: an absent pattern is written as the empty pattern text.
SerializeOptionRegex_EmptyText(fmt, opt) ==
    IF opt.t = "Some" THEN serialize_some(fmt, SerializeRegex(opt.items[1]))
    ELSE serialize_str("")

SerializeOptionRegex(fmt, opt) ==
    IF opt.t = "Some" THEN serialize_some(fmt, SerializeRegex(opt.items[1]))
    ELSE serialize_none

SerializeVec(vec) ==
    serialize_seq(Len(vec.items))
        \o Concat([i \in 1..Len(vec.items) |-> SerializeRegex(vec.items[i])]) \o end

SerializeOptionVec(fmt, opt) ==
    IF opt.t = "Some" THEN serialize_some(fmt, SerializeVec(opt.items[1]))
    ELSE serialize_none

\* Variant: serialize_map(None), no length is declared.
SerializeHashMap_NoLen(map, iter) ==
    serialize_map(-1)
        \o Concat([i \in 1..Len(iter) |->
                      serialize_str(iter[i].s) \o SerializeRegex(iter[i].items[1])])
        \o end

\* iter: the entries of the map in the order the HashMap yields them.
SerializeHashMap(map, iter) ==
    serialize_map(Cardinality(map.ents))
        \o Concat([i \in 1..Len(iter) |->
                      serialize_str(iter[i].s) \o SerializeRegex(iter[i].items[1])])
        \o end

\* The types T with `impl Serialize for Serde<T>` and with
\* `impl Serialize for Serde<&T>`.
SerializeImpls ==
    { Ty(FALSE, "Regex", "text"), Ty(TRUE, "RegexSet", "text"),
      Ty(FALSE, "RegexSet", "text"), Ty(TRUE, "Regex", "text"),
      Ty(FALSE, "Vec", "text"), Ty(FALSE, "HashMap", "text"),
      Ty(FALSE, "Regex", "bytes"), Ty(TRUE, "Regex", "bytes"),
      Ty(FALSE, "RegexSet", "bytes"), Ty(FALSE, "Vec", "bytes"),
      Ty(FALSE, "HashMap", "bytes") }

SerializeRefImpls ==
    { Ty(FALSE, "Regex", "text"), Ty(TRUE, "Regex", "text"),
      Ty(FALSE, "Vec", "text"), Ty(TRUE, "Vec", "text"),
      Ty(FALSE, "HashMap", "text"),
      Ty(FALSE, "Regex", "bytes"), Ty(TRUE, "Regex", "bytes"),
      Ty(TRUE, "Vec", "bytes"), Ty(FALSE, "Vec", "bytes"),
      Ty(FALSE, "HashMap", "bytes") }

Serde_serialize(fmt, ty, v, iter) ==
    CASE ty.shape = "Regex" /\ ~ty.opt -> SerializeRegex(v)
      [] ty.shape = "Regex" /\ ty.opt -> SerializeOptionRegex(fmt, v)
      [] ty.shape = "RegexSet" /\ ~ty.opt -> SerializeRegexSet(v)
      [] ty.shape = "RegexSet" /\ ty.opt -> SerializeOptionRegexSet(v)
      [] ty.shape = "Vec" /\ ~ty.opt -> SerializeVec(v)
      [] ty.shape = "Vec" /\ ty.opt -> SerializeOptionVec(fmt, v)
      [] ty.shape = "HashMap" -> SerializeHashMap(v, iter)

\* The free function: Serde(value).serialize(serializer), value a &T.
serialize(f, t, value, iter) == Serde_serialize(f, t, value, iter)

\* The `?` after a call on the Serializer: the encoder fails at its failAt-th
\* call (never, if failAt is 0 or beyond the last call); the error is returned
\* at once and the calls after it are not made.
\* Variant: the error is discarded and the encode goes on.
Propagate_Ignore(events, failAt) ==
    IF failAt \in 1..Len(events)
    THEN [ok |-> TRUE, err |-> NoError,
          out |-> SubSeq(events, 1, failAt - 1) \o SubSeq(events, failAt + 1, Len(events))]
    ELSE [ok |-> TRUE, out |-> events, err |-> NoError]

Propagate(events, failAt) ==
    IF failAt \in 1..Len(events)
    THEN [ok |-> FALSE, out |-> SubSeq(events, 1, failAt - 1),
          err |-> Error("encoder", "write failed")]
    ELSE [ok |-> TRUE, out |-> events, err |-> NoError]

\* The orders in which a HashMap may yield its entries.
Iterations(v) ==
    IF v.t = "HashMap"
    THEN {f \in [1..Cardinality(v.ents) -> v.ents] :
            \A i, j \in DOMAIN f : i # j => f[i] # f[j]}
    ELSE {<<>>}

\* ------------------------------------------------------------- the inputs
KeyTexts == {"a", "b"}
SeqsUpTo(S, n) == UNION {[1..k -> S] : k \in 0..n}
Elems == {WStr(s) : s \in Texts} \cup {WNum}
Keys == {WStr(k) : k \in KeyTexts} \cup {WNum}
Entries == {WEntry(k, v) : k \in Keys, v \in Elems}
Plain ==
    Elems \cup {WNull}
        \cup {WSeq(xs) : xs \in SeqsUpTo(Elems, MaxSeqLen)}
        \cup {WMap(es) : es \in SeqsUpTo(Entries, MaxEntries)}
Inputs(f) ==
    IF f = "json" THEN Plain ELSE Plain \cup {WSome(v) : v \in Plain \ {WNull}}
Contents(d) == IF d.t = "some" THEN d.items[1] ELSE d
Hints(d) == IF Contents(d).t \in {"seq", "map"} THEN {"none", "exact"} ELSE {"none"}

\* ---------------------------------------------------------------- the state
VARIABLES
    fmt,      \* the format of the decoder and the encoder
    ty,       \* the type T of the Serde<T> being decoded and encoded
    input,    \* the value the decoder is positioned at
    hint,     \* whether SeqAccess / MapAccess report a size hint
    pc,       \* "start", "decoded", "encoded", "failed" (the encoder failed)
    result,   \* what Serde::<T>::deserialize returned
    via,      \* which Serialize impl was used: "owned" or "ref"
    out,      \* the calls the encode made on the Serializer
    entry,    \* the decode called: "Serde::deserialize" or the free "deserialize"
    ret,      \* what that decode returned to its caller
    failAt,   \* the call at which the encoder failed, 0 if none
    encerr,   \* the error the encode returned, NoError if none
    calls     \* concurrent calls, one per thread (used by SpecConc only)

vars == <<fmt, ty, input, hint, pc, result, via, out, entry, ret, failAt, encerr, calls>>

Init ==
    /\ fmt \in Formats
    /\ ty \in DeserializeImpls
    /\ input \in Inputs(fmt)
    /\ hint \in Hints(input)
    /\ pc = "start"
    /\ result = Err(NoError, <<>>, 0)
    /\ via = "-"
    /\ out = <<>>
    /\ entry = "-"
    /\ ret = Err(NoError, <<>>, 0)
    /\ failAt = 0
    /\ encerr = NoError
    /\ calls = <<>>

\* Serde::<T>::deserialize(d)
Decode ==
    /\ pc = "start"
    /\ result' = Serde_deserialize(fmt, ty, input, hint)
    /\ entry' = "Serde::deserialize"
    /\ ret' = Wrapper(result')
    /\ pc' = "decoded"
    /\ UNCHANGED <<fmt, ty, input, hint, via, out, failAt, encerr, calls>>

\* serde_regex::deserialize::<T, _>(d), the form #[serde(with = "serde_regex")]
\* calls; what it returns is the value the caller holds.
DecodeFree ==
    /\ pc = "start"
    /\ ret' = deserialize(fmt, ty, input, hint)
    /\ entry' = "deserialize"
    /\ result' = ret'
    /\ pc' = "decoded"
    /\ UNCHANGED <<fmt, ty, input, hint, via, out, failAt, encerr, calls>>

Encode ==
    /\ pc = "decoded"
    /\ result.ok
    /\ \E v \in {"owned", "ref"}, iter \in Iterations(result.val) :
          /\ v = "owned" => ty \in SerializeImpls
          /\ v = "ref" => ty \in SerializeRefImpls
          /\ via' = v
          /\ LET events == IF v = "ref" THEN serialize(fmt, ty, result.val, iter)
                           ELSE Serde_serialize(fmt, ty, result.val, iter) IN
             \E n \in 0..Len(events) :
                LET r == Propagate(events, n) IN
                /\ failAt' = n
                /\ out' = r.out
                /\ encerr' = r.err
                /\ pc' = IF r.ok THEN "encoded" ELSE "failed"
    /\ UNCHANGED <<fmt, ty, input, hint, result, entry, ret, calls>>

Next == Decode \/ DecodeFree \/ Encode

Spec == Init /\ [][Next]_vars

\* ------------------------------------------------------ concurrent calls
\* Two threads, each decoding its own input into Serde<Vec<Regex>> or
\* Serde<HashMap<String, Regex>> and then encoding what it got.  A step is one
\* turn of the visitor's while-let loop, so the loops of the calls interleave.
Threads == {1, 2}
ConcTypes == {Ty(FALSE, "Vec", "text"), Ty(FALSE, "HashMap", "text")}
ConcElems == {WStr("a.*b"), WStr("[a-z")}
ConcEntries ==
    {WEntry(WStr("a"), WStr("a.*b")), WEntry(WStr("b"), WStr("c?d")),
     WEntry(WStr("b"), WStr("[a-z"))}
ConcInputs(t) ==
    IF t.shape = "Vec" THEN {WSeq(xs) : xs \in SeqsUpTo(ConcElems, MaxSeqLen)}
    ELSE {WMap(es) : es \in SeqsUpTo(ConcEntries, MaxEntries)}

\* A call: its type and input, where it stands, the locals of visit_seq /
\* visit_map (i: elements taken, acc: the vec or hashmap, log: engine calls),
\* and what it returned.  mixed: a step of this call was taken while another
\* call was inside its loop.
NewCall(t, d) ==
    [ty |-> t, input |-> d, pc |-> "start", i |-> 0, acc |-> NoValue, log |-> <<>>,
     cap |-> 0, result |-> Err(NoError, <<>>, 0), out |-> <<>>, mixed |-> FALSE]

Overlaps(cs, t) == \E u \in DOMAIN cs : u # t /\ cs[u].pc = "loop"

\* d.deserialize_seq / d.deserialize_map up to the first turn of the loop.
begin_visit(cs, t) ==
    LET c == cs[t] IN
    [c EXCEPT !.pc = "loop",
              !.cap = with_capacity("exact", Len(c.input.items)),
              !.acc = IF c.ty.shape = "Vec" THEN Vec(<<>>) ELSE HashMap({}),
              !.mixed = c.mixed \/ Overlaps(cs, t)]

\* Variant: compiled patterns are kept in a cache all calls share; a text that
\* another call has compiled is taken from it and the engine is not called.
next_element_SharedCache(cs, t) ==
    LET c == cs[t]
        m == c.ty.mode
        x == c.input.items[c.i + 1]
        r == DeserializeRegex(m, x)
        cached == \E u \in DOMAIN cs : u # t /\
                     \E k \in 1..Len(cs[u].log) : cs[u].log[k].pats = <<x.s>>
        c1 == [c EXCEPT !.mixed = c.mixed \/ Overlaps(cs, t)] IN
    IF c.i = Len(c.input.items)
    THEN [c1 EXCEPT !.pc = "decoded",
                    !.result = [Ok(c.acc, c.log, c.i) EXCEPT !.cap = c.cap]]
    ELSE IF r.ok
    THEN [c1 EXCEPT !.i = c.i + 1,
                    !.acc = Vec(Append(c.acc.items, r.val)),
                    !.log = IF cached THEN c.log ELSE c.log \o r.log]
    ELSE [c1 EXCEPT !.pc = "decoded",
                    !.result = [Err(r.err, c.log \o r.log, c.i + 1) EXCEPT !.cap = c.cap]]

\* One turn of `while let Some(Serde(el)) = seq.next_element()? { vec.push(el) }`
next_element(cs, t) ==
    LET c == cs[t]
        m == c.ty.mode
        r == DeserializeRegex(m, c.input.items[c.i + 1])
        c1 == [c EXCEPT !.mixed = c.mixed \/ Overlaps(cs, t)] IN
    IF c.i = Len(c.input.items)
    THEN [c1 EXCEPT !.pc = "decoded",
                    !.result = [Ok(c.acc, c.log, c.i) EXCEPT !.cap = c.cap]]
    ELSE IF r.ok
    THEN [c1 EXCEPT !.i = c.i + 1,
                    !.acc = Vec(Append(c.acc.items, r.val)),
                    !.log = c.log \o r.log]
    ELSE [c1 EXCEPT !.pc = "decoded",
                    !.result = [Err(r.err, c.log \o r.log, c.i + 1) EXCEPT !.cap = c.cap]]

\* One turn of `while let Some((key, Serde(value))) = map.next_entry()? { .. }`
next_entry(cs, t) ==
    LET c == cs[t]
        m == c.ty.mode
        e == c.input.items[c.i + 1]
        key == Cow_str_deserialize(e.items[1])
        value == DeserializeRegex(m, e.items[2])
        c1 == [c EXCEPT !.mixed = c.mixed \/ Overlaps(cs, t)] IN
    IF c.i = Len(c.input.items)
    THEN [c1 EXCEPT !.pc = "decoded",
                    !.result = [Ok(c.acc, c.log, c.i) EXCEPT !.cap = c.cap]]
    ELSE IF ~key.ok
    THEN [c1 EXCEPT !.pc = "decoded",
                    !.result = [Err(key.err, c.log, c.i + 1) EXCEPT !.cap = c.cap]]
    ELSE IF value.ok
    THEN [c1 EXCEPT !.i = c.i + 1,
                    !.acc = HashMap(insert(c.acc.ents, key.val.s, value.val)),
                    !.log = c.log \o value.log]
    ELSE [c1 EXCEPT !.pc = "decoded",
                    !.result = [Err(value.err, c.log \o value.log, c.i + 1)
                                   EXCEPT !.cap = c.cap]]

InitConc ==
    /\ calls \in [Threads -> UNION {{NewCall(t, d) : d \in ConcInputs(t)} : t \in ConcTypes}]
    /\ fmt = "json"
    /\ ty = Ty(FALSE, "Vec", "text")
    /\ input = WNull
    /\ hint = "none"
    /\ pc = "start"
    /\ result = Err(NoError, <<>>, 0)
    /\ via = "-"
    /\ out = <<>>
    /\ entry = "-"
    /\ ret = Err(NoError, <<>>, 0)
    /\ failAt = 0
    /\ encerr = NoError

Sequential == <<fmt, ty, input, hint, pc, result, via, out, entry, ret, failAt, encerr>>

ThreadBegin(t) ==
    /\ calls[t].pc = "start"
    /\ calls' = [calls EXCEPT ![t] = begin_visit(calls, t)]
    /\ UNCHANGED Sequential

ThreadNextElement(t) ==
    /\ calls[t].pc = "loop" /\ calls[t].ty.shape = "Vec"
    /\ calls' = [calls EXCEPT ![t] = next_element(calls, t)]
    /\ UNCHANGED Sequential

ThreadNextEntry(t) ==
    /\ calls[t].pc = "loop" /\ calls[t].ty.shape = "HashMap"
    /\ calls' = [calls EXCEPT ![t] = next_entry(calls, t)]
    /\ UNCHANGED Sequential

ThreadEncode(t) ==
    /\ calls[t].pc = "decoded" /\ calls[t].result.ok
    /\ \E iter \in Iterations(calls[t].result.val) :
          calls' = [calls EXCEPT
                      ![t].out = serialize("json", calls[t].ty, calls[t].result.val, iter),
                      ![t].pc = "encoded",
                      ![t].mixed = calls[t].mixed \/ Overlaps(calls, t)]
    /\ UNCHANGED Sequential

NextConc ==
    \E t \in Threads :
        \/ ThreadBegin(t)
        \/ ThreadNextElement(t)
        \/ ThreadNextEntry(t)
        \/ ThreadEncode(t)

SpecConc == InitConc /\ [][NextConc]_vars

\* ================================================================ claims
IsType(opt, shape) == ty.opt = opt /\ ty.shape = shape
Done == pc \in {"decoded", "encoded"}
AllStr(xs) == \A i \in 1..Len(xs) : xs[i].t = "str"
AllCompilable(mode, xs) ==
    \A i \in 1..Len(xs) : xs[i].t = "str" /\ Compilable(mode, xs[i].s)
StrEvents(xs) == [i \in 1..Len(xs) |-> Ev("str", xs[i].s, 0)]
SeqEvents(xs) == <<Ev("seq", "", Len(xs))>> \o StrEvents(xs) \o <<Ev("end", "", 0)>>

\* C1: for the text and the byte kind and every source text s the engine
\* compiles, decoding the text token s succeeds, the held pattern's as_str is
\* s, and encoding the wrapper emits exactly one text token equal to s.
C1_SingleRoundTrip ==
    (IsType(FALSE, "Regex") /\ input.t = "str" /\ Compilable(ty.mode, input.s)) =>
        /\ Done => /\ result.ok
                   /\ result.val.t = RegexName(ty.mode)
                   /\ as_str(result.val) = input.s
        /\ pc = "encoded" => out = <<Ev("str", input.s, 0)>>

C1_Witness ==
    /\ pc = "encoded" /\ IsType(FALSE, "Regex") /\ ty.mode = "bytes"
    /\ input = WStr("(?-u)\\xFF") /\ out = <<Ev("str", "(?-u)\\xFF", 0)>>

RECURSIVE FullyValid(_)
FullyValid(v) ==
    CASE v.t = "Regex" -> Compilable("text", v.s)
      [] v.t = "bytes::Regex" -> Compilable("bytes", v.s)
      [] v.t = "RegexSet" -> \A i \in 1..Len(v.items) : Compilable("text", v.items[i].s)
      [] v.t = "bytes::RegexSet" -> \A i \in 1..Len(v.items) : Compilable("bytes", v.items[i].s)
      [] v.t = "Vec" -> \A i \in 1..Len(v.items) : FullyValid(v.items[i])
      [] v.t = "HashMap" -> \A e \in v.ents : FullyValid(e.items[1])
      [] v.t = "Some" -> FullyValid(v.items[1])
      [] v.t = "None" -> TRUE
      [] OTHER -> FALSE

\* C2: a text token the engine cannot compile decodes to an error built from
\* the engine's diagnostic and to no wrapper; a pattern-set input with at least
\* one member that does not compile fails as a whole; every decode outcome is
\* either a fully valid wrapper or an error, never both and never neither.
C2_CompileFailureAllOrNothing ==
    Done =>
        /\ (IsType(FALSE, "Regex") /\ input.t = "str" /\ ~Compilable(ty.mode, input.s)) =>
              /\ ~result.ok
              /\ result.err = Error("custom", Diagnostic(ty.mode, input.s))
              /\ result.val = NoValue
        /\ (IsType(FALSE, "RegexSet") /\ input.t = "seq" /\ AllStr(input.items)
              /\ ~AllCompilable(ty.mode, input.items)) =>
              /\ ~result.ok
              /\ result.err.kind = "custom"
              /\ result.val = NoValue
        /\ result.ok => (result.val # NoValue /\ FullyValid(result.val) /\ result.err = NoError)
        /\ ~result.ok => (result.val = NoValue /\ result.err # NoError)

C2_Witness ==
    /\ pc = "decoded" /\ IsType(FALSE, "RegexSet") /\ ty.mode = "text"
    /\ input = WSeq(<<WStr("a.*b"), WStr("[a-z")>>)
    /\ result.err = Error("custom", "unclosed character class")

\* C3: decoding a sequence of N compilable source texts into Serde<Vec<Regex>>
\* (or the byte kind) yields a vector of exactly N patterns whose i-th source
\* text is the i-th input text, and re-encoding emits a sequence of declared
\* length N with the same texts in the same order, with or without size hint.
C3_SequenceOrderPreserved ==
    (IsType(FALSE, "Vec") /\ input.t = "seq" /\ AllCompilable(ty.mode, input.items)) =>
        /\ Done => /\ result.ok
                   /\ result.val.t = "Vec"
                   /\ Len(result.val.items) = Len(input.items)
                   /\ \A i \in 1..Len(input.items) :
                         /\ result.val.items[i].t = RegexName(ty.mode)
                         /\ as_str(result.val.items[i]) = input.items[i].s
        /\ pc = "encoded" => out = SeqEvents(input.items)

C3_Witness ==
    /\ pc = "encoded" /\ IsType(FALSE, "Vec") /\ hint = "exact"
    /\ input = WSeq(<<WStr("c?d"), WStr("a.*b")>>)
    /\ out = <<Ev("seq", "", 2), Ev("str", "c?d", 0), Ev("str", "a.*b", 0), Ev("end", "", 0)>>

\* C4: decoding an ordered sequence of compilable source texts into
\* Serde<RegexSet> (or the byte kind) yields a set whose patterns() equals the
\* input list in length and order, and encoding the set emits a sequence of
\* text tokens equal to the input sequence.
C4_PatternSetRoundTrip ==
    (IsType(FALSE, "RegexSet") /\ input.t = "seq" /\ AllCompilable(ty.mode, input.items)) =>
        /\ Done => /\ result.ok
                   /\ result.val.t = RegexSetName(ty.mode)
                   /\ Len(patterns(result.val)) = Len(input.items)
                   /\ \A i \in 1..Len(input.items) :
                         patterns(result.val)[i].s = input.items[i].s
        /\ pc = "encoded" => out = SeqEvents(input.items)

C4_Witness ==
    /\ pc = "encoded" /\ IsType(FALSE, "RegexSet") /\ ty.mode = "bytes"
    /\ input = WSeq(<<WStr("a.*b"), WStr("a.*b")>>)
    /\ Len(patterns(result.val)) = 2

\* C5: decoding the absence marker into an optional wrapper yields a wrapper
\* holding None without any call to the engine, and encoding a wrapper holding
\* None emits exactly the absence marker.
C5_AbsencePreserved ==
    /\ (Done /\ ty.opt /\ input = WNull) =>
          (result.ok /\ result.val = None /\ result.log = <<>>)
    /\ (pc = "encoded" /\ result.val = None) => out = <<Ev("none", "", 0)>>

C5_Witness ==
    /\ pc = "encoded" /\ ty.opt /\ input = WNull /\ result.val = None
    /\ out = <<Ev("none", "", 0)>>

\* The decode of the wrapped kind X on the same decoder.
Wrapped(d) == DeserializePlain(Inner(ty), d, hint)
OptionOfPattern == ty.opt /\ ty.shape \in {"Regex", "RegexSet"}

\* C6 as stated: for every input that is not the absence marker, decoding into
\* Serde<Option<X>> gives Some(v) exactly when decoding the same input into
\* Serde<X> gives v, and fails with the same error when that fails; encoding a
\* wrapper holding Some(v) emits the same output as X's encode of v.
C6_PresentOptionalTransparent ==
    (OptionOfPattern /\ input # WNull) =>
        /\ Done => /\ result.ok = Wrapped(input).ok
                   /\ result.ok => result.val = Some(Wrapped(input).val)
                   /\ ~result.ok => result.err = Wrapped(input).err
        /\ (pc = "encoded" /\ result.val.t = "Some") =>
              out = Serde_serialize(fmt, Inner(ty), result.val.items[1], <<>>)

\* C6 amended: the statement above holds in a format that writes a present
\* option as the bare value (JSON).  In a format that frames a present option
\* (Some(..)), decode gives Some(v) exactly when X's decode of the framed
\* payload gives v and an unframed input is an error before X's decode runs;
\* encode of Some(v) is X's encode of v inside the frame for Regex and
\* bytes::Regex, and X's encode of v with no frame for RegexSet.
C6_PresentOptionalByFormat ==
    (OptionOfPattern /\ input # WNull) =>
        /\ fmt = "json" => C6_PresentOptionalTransparent
        /\ (fmt = "ron" /\ Done /\ input.t = "some") =>
              /\ result.ok = Wrapped(input.items[1]).ok
              /\ result.ok => result.val = Some(Wrapped(input.items[1]).val)
              /\ ~result.ok => result.err = Wrapped(input.items[1]).err
        /\ (fmt = "ron" /\ Done /\ input.t # "some") =>
              (~result.ok /\ result.err.kind = "expected_option" /\ result.log = <<>>)
        /\ (fmt = "ron" /\ pc = "encoded" /\ result.val.t = "Some") =>
              LET inner == Serde_serialize(fmt, Inner(ty), result.val.items[1], <<>>) IN
              IF ty.shape = "Regex" THEN out = <<Ev("some", "", 0)>> \o inner
              ELSE out = inner

C6_Witness ==
    /\ pc = "encoded" /\ fmt = "json" /\ IsType(TRUE, "RegexSet")
    /\ input = WSeq(<<WStr("a.*b"), WStr("c?d")>>)
    /\ result.val.t = "Some"
    /\ out = SeqEvents(input.items)

\* Keys and values of a mapping input.
KeyOf(e) == e.items[1]
ValueOf(e) == e.items[2]
GoodEntries(mode, es) ==
    \A i \in 1..Len(es) :
        /\ KeyOf(es[i]).t = "str"
        /\ ValueOf(es[i]).t = "str" /\ Compilable(mode, ValueOf(es[i]).s)
KeysOf(es) == {KeyOf(es[i]).s : i \in 1..Len(es)}
LastIndex(es, k) == CHOOSE i \in 1..Len(es) :
    /\ KeyOf(es[i]).s = k
    /\ \A j \in (i + 1)..Len(es) : KeyOf(es[j]).s # k
DistinctKeys(es) == Cardinality(KeysOf(es)) = Len(es)

\* C7: when the mapping input holds a key more than once and all values
\* compile, the decode succeeds, the map holds exactly one entry per key, the
\* entry's source text is the value of the key's last occurrence, and the
\* number of entries is the number of distinct keys.
C7_DuplicateKeysLastWins ==
    (Done /\ IsType(FALSE, "HashMap") /\ input.t = "map"
          /\ GoodEntries(ty.mode, input.items)) =>
        /\ result.ok
        /\ result.val.t = "HashMap"
        /\ Cardinality(result.val.ents) = Cardinality(KeysOf(input.items))
        /\ \A k \in KeysOf(input.items) :
              /\ Cardinality({e \in result.val.ents : e.s = k}) = 1
              /\ \A e \in result.val.ents : e.s = k =>
                    /\ e.items[1].t = RegexName(ty.mode)
                    /\ as_str(e.items[1]) = ValueOf(input.items[LastIndex(input.items, k)]).s

C7_Witness ==
    /\ pc = "decoded" /\ IsType(FALSE, "HashMap") /\ ty.mode = "text"
    /\ input = WMap(<<WEntry(WStr("a"), WStr("a.*b")), WEntry(WStr("a"), WStr("c?d"))>>)
    /\ result.val = HashMap({MapEntry("a", Regex("text", "c?d"))})

\* The (key, source text) pairs an encoded mapping carries, by position.
PairAt(o, i) == <<o[2 * i].s, o[2 * i + 1].s>>
InputPairs(es) == {<<KeyOf(es[i]).s, ValueOf(es[i]).s>> : i \in 1..Len(es)}

\* C8: decoding a mapping of distinct keys to compilable source texts and
\* re-encoding emits a mapping whose declared length is the number of entries
\* and whose (key, source text) pairs are the input's pairs, each stored entry
\* exactly once, in whatever order the map enumerates.
C8_MappingIntegrity ==
    (pc = "encoded" /\ IsType(FALSE, "HashMap") /\ input.t = "map"
          /\ GoodEntries(ty.mode, input.items) /\ DistinctKeys(input.items)) =>
        LET n == Len(input.items) IN
        /\ Len(out) = 2 * n + 2
        /\ out[1] = Ev("map", "", n)
        /\ out[Len(out)] = Ev("end", "", 0)
        /\ \A i \in 1..n : out[2 * i].e = "str" /\ out[2 * i + 1].e = "str"
        /\ {PairAt(out, i) : i \in 1..n} = InputPairs(input.items)
        /\ \A i, j \in 1..n : i # j => PairAt(out, i) # PairAt(out, j)

\* The map yields its entries in the reverse of the input order.
C8_Witness ==
    /\ pc = "encoded" /\ IsType(FALSE, "HashMap") /\ ty.mode = "text"
    /\ input = WMap(<<WEntry(WStr("a"), WStr("a.*b")), WEntry(WStr("b"), WStr("c?d"))>>)
    /\ out = <<Ev("map", "", 2), Ev("str", "b", 0), Ev("str", "c?d", 0),
               Ev("str", "a", 0), Ev("str", "a.*b", 0), Ev("end", "", 0)>>

ElementFails(mode, x) == x.t # "str" \/ ~Compilable(mode, x.s)
ElementError(mode, x) ==
    IF x.t # "str" THEN Error("invalid_type", x.t)
    ELSE Error("custom", Diagnostic(mode, x.s))
FirstFailing(mode, xs) == CHOOSE i \in 1..Len(xs) :
    /\ ElementFails(mode, xs[i])
    /\ \A j \in 1..(i - 1) : ~ElementFails(mode, xs[j])
\* The engine calls that decoding elements 1..i one by one makes.
CallsUpTo(mode, xs, i) ==
    LET texts == SelectSeq(SubSeq(xs, 1, i), LAMBDA x : x.t = "str") IN
    [j \in 1..Len(texts) |-> EngineCall("from_str", mode, <<texts[j].s>>)]

\* C9: when the element at position i is the first of a sequence that fails to
\* decode, the decode into Serde<Vec<Regex>> (or the byte kind) returns that
\* element's error, reads and compiles no later element, and returns no vector.
C9_SequenceFailsAtomically ==
    (Done /\ IsType(FALSE, "Vec") /\ input.t = "seq"
          /\ \E i \in 1..Len(input.items) : ElementFails(ty.mode, input.items[i])) =>
        LET i == FirstFailing(ty.mode, input.items) IN
        /\ ~result.ok
        /\ result.err = ElementError(ty.mode, input.items[i])
        /\ result.reads = i
        /\ result.log = CallsUpTo(ty.mode, input.items, i)
        /\ result.val = NoValue

\* The failing element is followed by one that would have compiled.
C9_Witness ==
    /\ pc = "decoded" /\ IsType(FALSE, "Vec") /\ ty.mode = "text"
    /\ input = WSeq(<<WStr("[a-z"), WStr("a.*b")>>)
    /\ result.reads = 1 /\ ~result.ok

\* C10 as stated: for each kind (text pattern, byte pattern, text pattern-set,
\* byte pattern-set) and each shape (the kind itself, sequence of pattern,
\* mapping of key to pattern) both a decode and an encode of the optional of
\* that shape exist; in particular every optional wrapper that was decoded can
\* be encoded.
C10_OptionalForEveryShape ==
    /\ \A t \in AllTypes : t.opt =>
          /\ t \in DeserializeImpls
          /\ t \in SerializeImpls \cup SerializeRefImpls
    /\ (pc = "decoded" /\ ty.opt /\ result.ok) =>
          ty \in SerializeImpls \cup SerializeRefImpls

\* What decoding the wrapper Serde<T> from the same decoder returns.
OfWrapper == Wrapper(Serde_deserialize(fmt, ty, input, hint))

\* C11 as stated: for every type T the adapter supports, deserialize::<T>(d)
\* returns Ok(v) exactly when decoding Serde<T> from d returns Ok(Serde(v)) and
\* the same error otherwise, the wrapper is not part of the returned value, and
\* serialize(&v, enc) exists and produces the output (or the encoder error) of
\* encoding the owned wrapper Serde(v).
C11_FreeEntryPointsEquivalent ==
    /\ (pc # "start" /\ entry = "deserialize") =>
          /\ ret.ok = OfWrapper.ok
          /\ ret.ok => (OfWrapper.val = Serde(ret.val) /\ ret.val.t # "Serde")
          /\ ~ret.ok => (ret.err = OfWrapper.err /\ ret.val = NoValue)
    /\ (pc = "decoded" /\ result.ok) => ty \in SerializeRefImpls
    /\ (pc \in {"encoded", "failed"} /\ via = "ref" /\ ty \in SerializeImpls) =>
          \E iter \in Iterations(result.val) :
             LET owned == Propagate(Serde_serialize(fmt, ty, result.val, iter), failAt) IN
             out = owned.out /\ encerr = owned.err

\* The same, for the types T that have both Serialize impls (Serde<T> and
\* Serde<&T>); the free serialize does not exist for the others.
C11_WhereBothImplsExist ==
    /\ (pc # "start" /\ entry = "deserialize") =>
          /\ ret.ok = OfWrapper.ok
          /\ ret.ok => (OfWrapper.val = Serde(ret.val) /\ ret.val.t # "Serde")
          /\ ~ret.ok => (ret.err = OfWrapper.err /\ ret.val = NoValue)
    /\ (pc \in {"encoded", "failed"} /\ via = "ref" /\ ty \in SerializeImpls) =>
          \E iter \in Iterations(result.val) :
             LET owned == Propagate(Serde_serialize(fmt, ty, result.val, iter), failAt) IN
             out = owned.out /\ encerr = owned.err

\* The error of the first collaborator that fails while a value is decoded,
\* in the order the decoder is read; NoError if none fails.
PatternError(mode, x) ==
    IF ElementFails(mode, x) THEN ElementError(mode, x) ELSE NoError
EntryError(mode, e) ==
    IF KeyOf(e).t # "str" THEN Error("invalid_type", KeyOf(e).t)
    ELSE PatternError(mode, ValueOf(e))
FirstError(errs) ==
    IF \A i \in 1..Len(errs) : errs[i] = NoError THEN NoError
    ELSE errs[CHOOSE i \in 1..Len(errs) :
                 errs[i] # NoError /\ \A j \in 1..(i - 1) : errs[j] = NoError]
PlainError(t, d) ==
    CASE t.shape = "Regex" -> PatternError(t.mode, d)
      [] t.shape = "RegexSet" ->
            IF d.t # "seq" THEN Error("invalid_type", d.t)
            ELSE IF ~AllStr(d.items)
            THEN FirstError([i \in 1..Len(d.items) |->
                    IF d.items[i].t # "str" THEN Error("invalid_type", d.items[i].t)
                    ELSE NoError])
            ELSE FirstError([i \in 1..Len(d.items) |-> PatternError(t.mode, d.items[i])])
      [] t.shape = "Vec" ->
            IF d.t # "seq" THEN Error("invalid_type", d.t)
            ELSE FirstError([i \in 1..Len(d.items) |-> PatternError(t.mode, d.items[i])])
      [] t.shape = "HashMap" ->
            IF d.t # "map" THEN Error("invalid_type", d.t)
            ELSE FirstError([i \in 1..Len(d.items) |-> EntryError(t.mode, d.items[i])])
ExpectedError ==
    IF ~ty.opt THEN PlainError(ty, input)
    ELSE IF input = WNull THEN NoError
    ELSE IF fmt = "json" THEN PlainError(Inner(ty), input)
    ELSE IF input.t = "some" THEN PlainError(Inner(ty), input.items[1])
    ELSE Error("expected_option", input.t)
\* An engine call that the engine rejected.
Rejected(c) == \E i \in 1..Len(c.pats) : ~Compilable(c.mode, c.pats[i])

\* C12: an error raised while decoding (a malformed token, a mapping key, an
\* element of a sequence, a value of a mapping, the payload of an optional)
\* aborts the whole decode and is what the caller gets, with no value and no
\* retry; the first error of the encoder is what the encode returns and no call
\* is made on the encoder after it; an encode returns Ok only if no call on the
\* encoder failed.
C12_NoErrorSuppressed ==
    /\ pc # "start" =>
          /\ result.ok = (ExpectedError = NoError)
          /\ ret.ok = result.ok
          /\ ~result.ok =>
                /\ result.err = ExpectedError /\ result.val = NoValue
                /\ ret.err = ExpectedError /\ ret.val = NoValue
          /\ \A i \in 1..Len(result.log) :
                Rejected(result.log[i]) => (i = Len(result.log) /\ ~result.ok)
    /\ pc = "failed" =>
          /\ failAt >= 1
          /\ encerr = Error("encoder", "write failed")
          /\ \E iter \in Iterations(result.val) :
                LET all == Serde_serialize(fmt, ty, result.val, iter) IN
                failAt <= Len(all) /\ out = SubSeq(all, 1, failAt - 1)
    /\ pc = "encoded" => (encerr = NoError /\ failAt = 0)

\* A mapping key fails to decode inside the payload of an optional, after an
\* entry that decoded.
C12_Witness ==
    /\ pc = "decoded" /\ fmt = "ron" /\ IsType(TRUE, "HashMap")
    /\ input = WSome(WMap(<<WEntry(WStr("a"), WStr("a.*b")), WEntry(WNum, WStr("c?d"))>>))
    /\ ~result.ok /\ result.err = Error("invalid_type", "num") /\ result.reads = 2

\* What the call returns when it is the only one: the whole decode at once.
Alone(c) == Serde_deserialize("json", c.ty, c.input, "exact")
Finished(c) == c.pc \in {"decoded", "encoded"}

\* C13: no state is shared between calls: under any interleaving of the calls'
\* steps each call returns what it returns when run alone (a mapping's encode
\* up to the order the map yields its entries), every call compiles its own
\* texts, and two decodes of the same input give equal results.
C13_NoInterference ==
    \A t \in DOMAIN calls :
        LET c == calls[t] IN
        /\ Finished(c) =>
              /\ c.result = Alone(c)
              /\ c.result.ok => Len(c.result.log) = Len(c.input.items)
              /\ \A u \in DOMAIN calls :
                    (Finished(calls[u]) /\ calls[u].ty = c.ty /\ calls[u].input = c.input) =>
                        calls[u].result = c.result
        /\ c.pc = "encoded" =>
              \E iter \in Iterations(Alone(c).val) :
                  c.out = Serde_serialize("json", c.ty, Alone(c).val, iter)

\* Two calls decode the same two texts, their loops interleaved, and both
\* have encoded.
C13_Witness ==
    /\ DOMAIN calls # {}
    /\ calls[1].input = WSeq(<<WStr("a.*b"), WStr("a.*b")>>)
    /\ calls[2].input = calls[1].input
    /\ calls[1].mixed /\ calls[2].mixed
    /\ calls[1].pc = "encoded" /\ calls[2].pc = "encoded"
    /\ Len(calls[1].result.log) = 2 /\ Len(calls[2].result.log) = 2

====
